---- MODULE Spec2Model ----
(***************************************************************************)
(* docktail: one supervisor thread (logs) keeps a map of LogWorker threads *)
(* in step with the containers a pattern matches; every LogWorker polls    *)
(* its container, prints "+ name" / "- name" banners on running            *)
(* transitions and streams the container's log lines to a shared console.  *)
(* The Docker daemon is the environment: containers are created, started,  *)
(* stopped and removed at any time and any runtime call may fail.          *)
(***************************************************************************)
EXTENDS Naturals, Integers, Sequences, FiniteSets, TLC

\* ------------------------------------------------------------- bounds
\* Number of palette entries kept from STYLES (the source has 18).
PaletteSize == 2
\* Entries the console keeps (banners, log lines, advisory) before output blocks.
MaxOut == 2
\* LogWorker objects ever constructed in one run.
MaxWorkers == 3

\* ------------------------------------------------------------- names
\* Container names and patterns are character sequences, so that lower()
\* and the substring test are computed and not assumed.
API == <<"a", "p", "i">>
APP == <<"A", "p", "p">>
ASH == <<"a", "s", "h">>
DB == <<"d", "b">>
WEB == <<"w", "e", "b">>
NX == <<"x">>
NY == <<"y">>
NZ == <<"z">>
REDIS == <<"r", "e", "d", "i", "s">>
NGINX == <<"n", "g", "i", "n", "x">>
DB2 == <<"d", "b", "2">>
APP1 == <<"a", "p", "p", "1">>
PG == <<"p", "g">>
MQ == <<"m", "q">>

\* The containers the daemon may hold in a run.
Names == {API, ASH}

\* client.containers.list() order, one fixed order per run.
ListingOrder == <<API, ASH>>

\* Names the style assigner is exercised on.
AssignNames == {API, APP, ASH, DB, WEB, NX, NY, NZ, REDIS, NGINX, DB2, APP1, PG, MQ}

\* Patterns given on the command line.
Patterns == {<<"a">>, API, ASH}

\* Config.Tty and Config.OpenStdin of each container (c.attrs["Config"]).
Tty(n) == n = ASH
OpenStdin(n) == n = APP

\* ------------------------------------------------------------- palette
AllStyles ==
    << "bold cyan", "bold magenta", "bold green", "bold yellow", "bold blue",
       "bold red", "cyan", "magenta", "green", "yellow", "blue", "red",
       "bright_cyan", "bright_magenta", "bright_green", "bright_yellow",
       "bright_blue", "bright_red" >>

STYLES == SubSeq(AllStyles, 1, PaletteSize)

Palette == {STYLES[i] : i \in 1..Len(STYLES)}

\* int(sha256(name.encode("utf-8")).hexdigest(), 16) reduced modulo 720720
\* (= lcm(1..16), a multiple of 18), which keeps the residue modulo every
\* palette length from 1 to 16 and modulo 18.
Sha256Int(name) ==
    CASE name = API -> 603833
      [] name = APP -> 637261
      [] name = ASH -> 397267
      [] name = DB  -> 209361
      [] name = WEB -> 534610
      [] name = NX  -> 187025
      [] name = NY  -> 6650
      [] name = NZ  -> 499574
      [] name = REDIS -> 461843
      [] name = NGINX -> 238517
      [] name = DB2 -> 497259
      [] name = APP1 -> 507956
      [] name = PG  -> 85211
      [] name = MQ  -> 536294

\* 0-based index into STYLES.
hashed_index(name) == Sha256Int(name) % Len(STYLES)

RECURSIVE assign_scan(_, _, _)
assign_scan(start, off, used_styles) ==
    IF off >= Len(STYLES)
    THEN STYLES[start + 1]
    ELSE LET candidate == STYLES[((start + off) % Len(STYLES)) + 1]
         IN  IF candidate \notin used_styles
             THEN candidate
             ELSE assign_scan(start, off + 1, used_styles)

\* Variant: the hashed style whatever is in use.
assign_style_hashed(name, used_styles) == STYLES[hashed_index(name) + 1]

\* Variant: the scan starts at the head of the palette, not at the hashed index.
assign_style_from_head(name, used_styles) == assign_scan(0, 0, used_styles)

assign_style(name, used_styles) == assign_scan(hashed_index(name), 0, used_styles)

\* ------------------------------------------------------------- matching
LowerChar(c) == IF c = "A" THEN "a" ELSE c

Lower(s) == [i \in 1..Len(s) |-> LowerChar(s[i])]

\* Python's  p in s  on strings.
Contains(p, s) ==
    \E i \in 0..(Len(s) - Len(p)) : SubSeq(s, i + 1, i + Len(p)) = p

\* Variant: only OpenStdin is read.
is_tty_container_stdin_only(c, reload_ok) ==
    IF reload_ok THEN OpenStdin(c) ELSE FALSE

\* Variant: a container whose reload raises is taken for interactive.
is_tty_container_fail_closed(c, reload_ok) ==
    IF reload_ok THEN (Tty(c) \/ OpenStdin(c)) ELSE TRUE

\* reload_ok: whether c.reload() returned; an exception yields False.
is_tty_container(c, reload_ok) ==
    IF reload_ok THEN (Tty(c) \/ OpenStdin(c)) ELSE FALSE

RECURSIVE FilterSeq(_, _)
FilterSeq(s, keep) ==
    IF s = << >> THEN << >>
    ELSE IF Head(s) \in keep
         THEN << Head(s) >> \o FilterSeq(Tail(s), keep)
         ELSE FilterSeq(Tail(s), keep)

\* all_containers: the listing; reload_fails: the containers whose reload raises.
find_matching_containers(all_containers, pat, ex, inc, reload_fails) ==
    LET listed  == {all_containers[i] : i \in 1..Len(all_containers)}
        named   == IF ex
                   THEN {c \in listed : c = pat}
                   ELSE {c \in listed : Contains(Lower(pat), Lower(c))}
        kept    == IF ~inc
                   THEN {c \in named : ~is_tty_container(c, c \notin reload_fails)}
                   ELSE named
    IN  FilterSeq(all_containers, kept)

\* ------------------------------------------------------------- state
VARIABLES
    pattern, exact, include_tty,   \* command line of the run
    cstate,                        \* daemon: container -> absent | exited | running
    stop_event,                    \* threading.Event shared by all threads
    workers,                       \* every LogWorker constructed, by identity
    active_workers,                \* dict name -> LogWorker (index into workers)
    console,                       \* what console.print received, in order
    mpc,                           \* position of the main thread in logs()
    exc,                           \* an exception is propagating out of logs()
    matches, mi, used_styles,      \* locals of ensure_workers_for_matches
    pass_base,                     \* history: len(workers) when the pass began
    joinq,                         \* workers still to join in the finally block
    tty_check_failed,              \* history: some is_tty_container reload raised
    exhausted,                     \* history: assign_style found every style used
    filtered,                      \* history: a pass dropped the listed exact target
    a_name, a_used, a_ret,         \* one call of assign_style: arguments, result
    m_all, m_fails, m_ret          \* one call of find_matching_containers

vars == << pattern, exact, include_tty, cstate, stop_event, workers,
           active_workers, console, mpc, exc, matches, mi, used_styles,
           pass_base, joinq, tty_check_failed, exhausted, filtered,
           a_name, a_used, a_ret, m_all, m_fails, m_ret >>

cfgVars == << pattern, exact, include_tty >>
assignVars == << a_name, a_used, a_ret >>
matchVars == << m_all, m_fails, m_ret >>
ensureVars == << matches, mi, used_styles, pass_base >>
mainVars == << mpc, exc, matches, mi, used_styles, pass_base, joinq,
               tty_check_failed, exhausted, filtered >>

\* m_ret before find_matching_containers has returned.
NoResult == << << >> >>

NoStyle == "none"

Init ==
    /\ pattern \in Patterns
    /\ exact \in BOOLEAN
    /\ include_tty \in BOOLEAN
    /\ cstate = [n \in Names |-> "absent"]
    /\ stop_event = FALSE
    /\ workers = << >>
    /\ active_workers = [n \in {} |-> 0]
    /\ console = << >>
    /\ mpc = "initial"
    /\ exc = FALSE
    /\ matches = << >>
    /\ mi = 0
    /\ used_styles = {}
    /\ pass_base = 0
    /\ joinq = << >>
    /\ tty_check_failed = FALSE
    /\ exhausted = FALSE
    /\ filtered = FALSE
    /\ m_all = << >>
    /\ m_fails = {}
    /\ m_ret = NoResult
    /\ a_name = API
    /\ a_used = {}
    /\ a_ret = NoStyle

\* The interpreter is still running: daemon threads stop with the main thread.
ProcessAlive == mpc # "exit"

WorkerIds == 1..Len(workers)

is_alive(w) == workers[w].pc # "done"

Out(w) == SelectSeq(console, LAMBDA e : e.src = w)

\* console.print of one entry by thread src (0: the main thread).
Emit(src, text) ==
    /\ Len(console) < MaxOut
    /\ console' = Append(console, [src |-> src, text |-> text])

\* ------------------------------------------------------------- daemon
\* A container whose name does not contain the pattern passes neither match
\* mode and is never looked at again: the run is the same without it.
Relevant(n) == Contains(Lower(pattern), Lower(n))

Create(n) ==
    /\ ProcessAlive
    /\ Relevant(n)
    /\ cstate[n] = "absent"
    /\ cstate' = [cstate EXCEPT ![n] = "exited"]
    /\ UNCHANGED << cfgVars, stop_event, workers, active_workers, console,
                    mainVars, assignVars, matchVars >>

Start(n) ==
    /\ ProcessAlive
    /\ Relevant(n)
    /\ cstate[n] = "exited"
    /\ cstate' = [cstate EXCEPT ![n] = "running"]
    /\ UNCHANGED << cfgVars, stop_event, workers, active_workers, console,
                    mainVars, assignVars, matchVars >>

Stop(n) ==
    /\ ProcessAlive
    /\ Relevant(n)
    /\ cstate[n] = "running"
    /\ cstate' = [cstate EXCEPT ![n] = "exited"]
    /\ UNCHANGED << cfgVars, stop_event, workers, active_workers, console,
                    mainVars, assignVars, matchVars >>

Remove(n) ==
    /\ ProcessAlive
    /\ Relevant(n)
    /\ cstate[n] # "absent"
    /\ cstate' = [cstate EXCEPT ![n] = "absent"]
    /\ UNCHANGED << cfgVars, stop_event, workers, active_workers, console,
                    mainVars, assignVars, matchVars >>

\* SIGINT / SIGTERM: handle_stop.
handle_stop ==
    /\ ProcessAlive
    /\ ~stop_event
    /\ stop_event' = TRUE
    /\ UNCHANGED << cfgVars, cstate, workers, active_workers, console,
                    mainVars, assignVars, matchVars >>

\* ------------------------------------------------------------- LogWorker.run
AtPc(w, p) == ProcessAlive /\ workers[w].pc = p

WorkerFrame == UNCHANGED << cfgVars, cstate, stop_event, active_workers,
                            mainVars, assignVars, matchVars >>

\* Variant: the worker also leaves its loop when its container is gone.
WorkerLoopTopEndsWhenGone(w) ==
    /\ AtPc(w, "top")
    /\ workers' = [workers EXCEPT ![w].pc =
                      IF stop_event \/ cstate[workers[w].container_name] = "absent"
                      THEN "done" ELSE "poll"]
    /\ console' = console
    /\ WorkerFrame

\* Variant: the loop never tests the stop event.
WorkerLoopTopNoStopTest(w) ==
    /\ AtPc(w, "top")
    /\ workers' = [workers EXCEPT ![w].pc = "poll"]
    /\ console' = console
    /\ WorkerFrame

\* while not self.stop_event.is_set()
WorkerLoopTop(w) ==
    /\ AtPc(w, "top")
    /\ workers' = [workers EXCEPT ![w].pc = IF stop_event THEN "done" ELSE "poll"]
    /\ console' = console
    /\ WorkerFrame

\* Variant: a stop banner whenever the container is not found.
WorkerNotFoundAlwaysBanner(w) ==
    /\ AtPc(w, "poll")
    /\ cstate[workers[w].container_name] = "absent"
    /\ Emit(w, "-")
    /\ workers' = [workers EXCEPT ![w].attached_running = FALSE, ![w].pc = "top"]
    /\ WorkerFrame

\* containers.get raises NotFound
WorkerNotFound(w) ==
    /\ AtPc(w, "poll")
    /\ cstate[workers[w].container_name] = "absent"
    /\ IF workers[w].attached_running
       THEN /\ Emit(w, "-")
            /\ workers' = [workers EXCEPT ![w].attached_running = FALSE,
                                          ![w].pc = "top"]
       ELSE /\ console' = console
            /\ workers' = [workers EXCEPT ![w].pc = "top"]
    /\ WorkerFrame

\* Variant: any lookup error is handled as NotFound is.
WorkerLookupErrorAsNotFound(w) ==
    /\ AtPc(w, "poll")
    /\ IF workers[w].attached_running
       THEN /\ Emit(w, "-")
            /\ workers' = [workers EXCEPT ![w].attached_running = FALSE,
                                          ![w].pc = "top"]
       ELSE /\ console' = console
            /\ workers' = [workers EXCEPT ![w].pc = "top"]
    /\ WorkerFrame

\* containers.get raises anything else
WorkerLookupError(w) ==
    /\ AtPc(w, "poll")
    /\ workers' = [workers EXCEPT ![w].pc = "top"]
    /\ console' = console
    /\ WorkerFrame

\* container.reload() raises
WorkerReloadError(w) ==
    /\ AtPc(w, "poll")
    /\ cstate[workers[w].container_name] # "absent"
    /\ workers' = [workers EXCEPT ![w].pc = "top"]
    /\ console' = console
    /\ WorkerFrame

\* Variant: a stop banner at every poll that finds the container not running.
WorkerNotRunningPerPoll(w) ==
    /\ AtPc(w, "poll")
    /\ cstate[workers[w].container_name] = "exited"
    /\ Emit(w, "-")
    /\ workers' = [workers EXCEPT ![w].attached_running = FALSE, ![w].pc = "top"]
    /\ WorkerFrame

\* container.status != "running"
WorkerNotRunning(w) ==
    /\ AtPc(w, "poll")
    /\ cstate[workers[w].container_name] = "exited"
    /\ IF workers[w].attached_running
       THEN /\ Emit(w, "-")
            /\ workers' = [workers EXCEPT ![w].attached_running = FALSE,
                                          ![w].pc = "top"]
       ELSE /\ console' = console
            /\ workers' = [workers EXCEPT ![w].pc = "top"]
    /\ WorkerFrame

\* Variant: the stream is opened with no banner and the flag left as it is.
WorkerRunningNoBanner(w) ==
    /\ AtPc(w, "poll")
    /\ cstate[workers[w].container_name] = "running"
    /\ console' = console
    /\ workers' = [workers EXCEPT ![w].pc = "stream"]
    /\ WorkerFrame

\* container.status == "running": banner on the transition, then container.logs
WorkerRunning(w) ==
    /\ AtPc(w, "poll")
    /\ cstate[workers[w].container_name] = "running"
    /\ IF ~workers[w].attached_running
       THEN /\ Emit(w, "+")
            /\ workers' = [workers EXCEPT ![w].attached_running = TRUE,
                                          ![w].pc = "stream"]
       ELSE /\ console' = console
            /\ workers' = [workers EXCEPT ![w].pc = "stream"]
    /\ WorkerFrame

\* Variant: a closing banner when the stream loop sees the stop event.
WorkerChunkClosingBanner(w) ==
    /\ AtPc(w, "stream")
    /\ cstate[workers[w].container_name] # "absent"
    /\ IF stop_event
       THEN /\ workers' = [workers EXCEPT ![w].pc = "top",
                                          ![w].attached_running = FALSE]
            /\ Emit(w, "-")
       ELSE /\ workers' = workers
            /\ \E nonempty \in BOOLEAN :
                  IF nonempty THEN Emit(w, "line") ELSE console' = console
    /\ WorkerFrame

\* one chunk of the stream; nonempty: the decoded line is not ""
WorkerChunk(w) ==
    /\ AtPc(w, "stream")
    /\ cstate[workers[w].container_name] # "absent"
    /\ IF stop_event
       THEN /\ workers' = [workers EXCEPT ![w].pc = "top"]
            /\ console' = console
       ELSE /\ workers' = workers
            /\ \E nonempty \in BOOLEAN :
                  IF nonempty THEN Emit(w, "line") ELSE console' = console
    /\ WorkerFrame

\* Variant: the end of the stream is taken for the stop of the container.
WorkerStreamEndBanner(w) ==
    /\ AtPc(w, "stream")
    /\ Emit(w, "-")
    /\ workers' = [workers EXCEPT ![w].pc = "top", ![w].attached_running = FALSE]
    /\ WorkerFrame

\* the generator is exhausted
WorkerStreamEnd(w) ==
    /\ AtPc(w, "stream")
    /\ workers' = [workers EXCEPT ![w].pc = "top"]
    /\ console' = console
    /\ WorkerFrame

\* container.logs or the generator raises
WorkerStreamError(w) ==
    /\ AtPc(w, "stream")
    /\ workers' = [workers EXCEPT ![w].pc = "top"]
    /\ console' = console
    /\ WorkerFrame

\* ------------------------------------------------------------- supervisor
MainFrame == UNCHANGED << cfgVars, cstate, assignVars, matchVars >>

\* client.containers.list(all=True): every container the daemon holds.
Listing == FilterSeq(ListingOrder, {n \in Names : cstate[n] # "absent"})

\* name is the name of a container in the listing.
Listed(name) == \E i \in 1..Len(Listing) : Listing[i] = name

\* The containers is_tty_container is called on by one find_matching_containers
\* and whose answer a failed reload changes (a failed reload of a container
\* that is not interactive gives the answer a successful one gives).
Checked(ex, inc) ==
    IF inc THEN {}
    ELSE {c \in Names : /\ cstate[c] # "absent"
                        /\ IF ex THEN c = pattern
                                 ELSE Contains(Lower(pattern), Lower(c))
                        /\ is_tty_container(c, TRUE)}

\* {w.style for w in active_workers.values() if w.is_alive()}
AliveStyles ==
    {workers[active_workers[n]].style :
        n \in {m \in DOMAIN active_workers : is_alive(active_workers[m])}}

\* Variant: the liveness test inverted.
NeedsWorkerInverted(name) ==
    \/ name \notin DOMAIN active_workers
    \/ is_alive(active_workers[name])

\* Variant: a worker for every match of every pass.
NeedsWorkerAlways(name) == TRUE

\* name not in active_workers or not active_workers[name].is_alive()
NeedsWorker(name) ==
    \/ name \notin DOMAIN active_workers
    \/ ~is_alive(active_workers[name])

\* Where logs() continues when ensure_workers_for_matches returns.
AfterEnsure(p) == IF p \in {"initial", "initial_for"} THEN "warn" ELSE "sleep"

\* ensure_workers_for_matches up to the for loop: the matches and the used styles.
MainEnsureMatch ==
    /\ mpc \in {"initial", "scan"}
    /\ \E reload_fails \in SUBSET Checked(exact, include_tty) :
          LET found == find_matching_containers(Listing, pattern, exact,
                                                include_tty, reload_fails)
          IN  /\ tty_check_failed' = (tty_check_failed \/ reload_fails # {})
              /\ filtered' = (filtered \/ (/\ exact
                                             /\ Listed(pattern)
                                             /\ found = << >>))
              /\ IF found = << >>
                 THEN /\ mpc' = AfterEnsure(mpc)
                      /\ UNCHANGED ensureVars
                 ELSE /\ mpc' = IF mpc = "initial" THEN "initial_for" ELSE "scan_for"
                      /\ matches' = found
                      /\ mi' = 1
                      /\ used_styles' = AliveStyles
                      /\ pass_base' = Len(workers)
    /\ UNCHANGED << stop_event, workers, active_workers, console, exc, joinq,
                    exhausted >>
    /\ MainFrame

\* client.containers.list raises: uncaught before the try block, and inside it
\* the finally block runs before the exception leaves logs().
MainListError ==
    /\ \/ mpc \in {"initial", "scan"}
       \/ mpc = "warn" /\ exact
    /\ exc' = TRUE
    /\ mpc' = IF mpc = "scan" THEN "finally" ELSE "exit"
    /\ UNCHANGED << stop_event, workers, active_workers, console, ensureVars,
                    joinq, tty_check_failed, exhausted, filtered >>
    /\ MainFrame

\* Variant: the style of a worker the pass starts is not added to the used set.
MainEnsureForNoAdd ==
    /\ mpc \in {"initial_for", "scan_for"}
    /\ LET name == matches[mi]
           style == assign_style(name, used_styles)
           last == mi = Len(matches)
       IN  /\ IF NeedsWorker(name)
              THEN /\ Len(workers) < MaxWorkers
                   /\ workers' = Append(workers,
                          [container_name |-> name, style |-> style,
                           pc |-> "top", attached_running |-> FALSE])
                   /\ active_workers' =
                          [n \in DOMAIN active_workers \cup {name} |->
                              IF n = name THEN Len(workers) + 1
                                          ELSE active_workers[n]]
                   /\ used_styles' = IF last THEN {} ELSE used_styles
                   /\ exhausted' = (exhausted \/ Palette \subseteq used_styles)
              ELSE /\ UNCHANGED << workers, active_workers, exhausted >>
                   /\ used_styles' = IF last THEN {} ELSE used_styles
           /\ IF last
              THEN /\ mpc' = AfterEnsure(mpc)
                   /\ matches' = << >>
                   /\ mi' = 0
                   /\ pass_base' = 0
              ELSE /\ mi' = mi + 1
                   /\ UNCHANGED << mpc, matches, pass_base >>
    /\ UNCHANGED << stop_event, console, exc, joinq, tty_check_failed,
                    filtered >>
    /\ MainFrame

\* One iteration of  for c in matches.
MainEnsureFor ==
    /\ mpc \in {"initial_for", "scan_for"}
    /\ LET name == matches[mi]
           style == assign_style(name, used_styles)
           last == mi = Len(matches)
       IN  /\ IF NeedsWorker(name)
              THEN /\ Len(workers) < MaxWorkers
                   /\ workers' = Append(workers,
                          [container_name |-> name, style |-> style,
                           pc |-> "top", attached_running |-> FALSE])
                   /\ active_workers' =
                          [n \in DOMAIN active_workers \cup {name} |->
                              IF n = name THEN Len(workers) + 1
                                          ELSE active_workers[n]]
                   /\ used_styles' = IF last THEN {} ELSE used_styles \cup {style}
                   /\ exhausted' = (exhausted \/ Palette \subseteq used_styles)
              ELSE /\ UNCHANGED << workers, active_workers, exhausted >>
                   /\ used_styles' = IF last THEN {} ELSE used_styles
           /\ IF last
              THEN /\ mpc' = AfterEnsure(mpc)
                   /\ matches' = << >>
                   /\ mi' = 0
                   /\ pass_base' = 0
              ELSE /\ mi' = mi + 1
                   /\ UNCHANGED << mpc, matches, pass_base >>
    /\ UNCHANGED << stop_event, console, exc, joinq, tty_check_failed,
                    filtered >>
    /\ MainFrame

\* Variant: the advisory goes by what the startup pass dropped, with no
\* second listing and check.
MainWarnFromStartupPass ==
    /\ mpc = "warn"
    /\ mpc' = "loop"
    /\ IF exact /\ filtered /\ ~include_tty
       THEN Emit(0, "advisory")
       ELSE console' = console
    /\ UNCHANGED << stop_event, workers, active_workers, exc, ensureVars, joinq,
                    tty_check_failed, exhausted, filtered >>
    /\ MainFrame

\* The advisory for an exact target that is interactive and excluded.
MainWarn ==
    /\ mpc = "warn"
    /\ mpc' = "loop"
    /\ IF exact
       THEN LET found == find_matching_containers(Listing, pattern, TRUE, TRUE, {})
            IN  IF found # << >>
                THEN \* the reload may raise; as in Checked, only where it matters
                     \E reload_ok \in {TRUE, ~is_tty_container(found[1], TRUE)} :
                        /\ tty_check_failed' = (tty_check_failed \/ ~reload_ok)
                        /\ IF is_tty_container(found[1], reload_ok) /\ ~include_tty
                           THEN Emit(0, "advisory")
                           ELSE console' = console
                ELSE UNCHANGED << console, tty_check_failed >>
       ELSE UNCHANGED << console, tty_check_failed >>
    /\ UNCHANGED << stop_event, workers, active_workers, exc, ensureVars, joinq,
                    exhausted, filtered >>
    /\ MainFrame

\* Variant: substring mode never rescans after the initial spawn.
MainLoopNoRescan ==
    /\ mpc = "loop"
    /\ mpc' = IF stop_event THEN "finally"
              ELSE IF exact /\ DOMAIN active_workers = {} THEN "scan"
              ELSE "sleep"
    /\ UNCHANGED << stop_event, workers, active_workers, console, exc,
                    ensureVars, joinq, tty_check_failed, exhausted,
                    filtered >>
    /\ MainFrame

\* Variant: exact mode retries at every iteration, as substring mode rescans.
MainLoopExactRetries ==
    /\ mpc = "loop"
    /\ \E due \in BOOLEAN :
          mpc' = IF stop_event THEN "finally"
                 ELSE IF ~exact /\ due THEN "scan"
                 ELSE IF exact THEN "scan"
                 ELSE "sleep"
    /\ UNCHANGED << stop_event, workers, active_workers, console, exc,
                    ensureVars, joinq, tty_check_failed, exhausted,
                    filtered >>
    /\ MainFrame

\* while not stop_event.is_set(): rescan (substring) or retry (exact), else
\* sleep. due: now - last_refresh >= refresh, which the clock decides.
MainLoop ==
    /\ mpc = "loop"
    /\ \E due \in BOOLEAN :
          mpc' = IF stop_event THEN "finally"
                 ELSE IF ~exact /\ due THEN "scan"
                 ELSE IF exact /\ DOMAIN active_workers = {} THEN "scan"
                 ELSE "sleep"
    /\ UNCHANGED << stop_event, workers, active_workers, console, exc,
                    ensureVars, joinq, tty_check_failed, exhausted,
                    filtered >>
    /\ MainFrame

\* time.sleep(0.2)
MainSleep ==
    /\ mpc = "sleep"
    /\ mpc' = "loop"
    /\ UNCHANGED << stop_event, workers, active_workers, console, exc,
                    ensureVars, joinq, tty_check_failed, exhausted,
                    filtered >>
    /\ MainFrame

\* list(active_workers.values()): the dict keeps the order of first insertion.
RECURSIVE ValuesFrom(_)
ValuesFrom(i) ==
    IF i > Len(workers) THEN << >>
    ELSE LET n == workers[i].container_name
         IN  IF \A j \in 1..(i - 1) : workers[j].container_name # n
             THEN << active_workers[n] >> \o ValuesFrom(i + 1)
             ELSE ValuesFrom(i + 1)

\* finally: stop_event.set(), then the joins
MainFinally ==
    /\ mpc = "finally"
    /\ stop_event' = TRUE
    /\ LET ws == ValuesFrom(1)
       IN  /\ joinq' = ws
           /\ mpc' = IF ws = << >> THEN "exit" ELSE "join"
    /\ UNCHANGED << workers, active_workers, console, exc, ensureVars,
                    tty_check_failed, exhausted, filtered >>
    /\ MainFrame

\* Variant: join() with no timeout returns when the worker has ended.
MainJoinNoTimeout ==
    /\ mpc = "join"
    /\ ~is_alive(Head(joinq))
    /\ joinq' = Tail(joinq)
    /\ mpc' = IF Tail(joinq) = << >> THEN "exit" ELSE "join"
    /\ UNCHANGED << stop_event, workers, active_workers, console, exc,
                    ensureVars, tty_check_failed, exhausted,
                    filtered >>
    /\ MainFrame

\* w.join(timeout=2.0) returns: the worker has ended or the timeout has passed
MainJoin ==
    /\ mpc = "join"
    /\ joinq' = Tail(joinq)
    /\ mpc' = IF Tail(joinq) = << >> THEN "exit" ELSE "join"
    /\ UNCHANGED << stop_event, workers, active_workers, console, exc,
                    ensureVars, tty_check_failed, exhausted,
                    filtered >>
    /\ MainFrame

\* ------------------------------------------------------------- specification
Next ==
    \/ \E n \in Names : Create(n)
    \/ \E n \in Names : Start(n)
    \/ \E n \in Names : Stop(n)
    \/ \E n \in Names : Remove(n)
    \/ handle_stop
    \/ MainEnsureMatch
    \/ MainListError
    \/ MainEnsureFor
    \/ MainWarn
    \/ MainLoop
    \/ MainSleep
    \/ MainFinally
    \/ MainJoin
    \/ \E w \in WorkerIds : WorkerLoopTop(w)
    \/ \E w \in WorkerIds : WorkerNotFound(w)
    \/ \E w \in WorkerIds : WorkerLookupError(w)
    \/ \E w \in WorkerIds : WorkerReloadError(w)
    \/ \E w \in WorkerIds : WorkerNotRunning(w)
    \/ \E w \in WorkerIds : WorkerRunning(w)
    \/ \E w \in WorkerIds : WorkerChunk(w)
    \/ \E w \in WorkerIds : WorkerStreamEnd(w)
    \/ \E w \in WorkerIds : WorkerStreamError(w)

Spec == Init /\ [][Next]_vars

\* ------------------------------------------------------------- fair runs
\* Substring mode, pattern "a", interactive containers excluded.
InitFair == Init /\ pattern = << "a" >> /\ ~exact /\ ~include_tty

\* The main thread is scheduled while it can take a step.
MainStep ==
    \/ MainEnsureMatch
    \/ MainEnsureFor
    \/ MainWarn
    \/ MainLoop
    \/ MainSleep
    \/ MainFinally
    \/ MainJoin

\* The refresh interval passes: a loop iteration that rescans.
MainRescan == MainLoop /\ mpc' = "scan"

\* A worker thread is scheduled; its runtime calls may fail.
WorkerStep(w) ==
    /\ w \in WorkerIds
    /\ \/ WorkerLoopTop(w)
       \/ WorkerNotFound(w)
       \/ WorkerLookupError(w)
       \/ WorkerReloadError(w)
       \/ WorkerNotRunning(w)
       \/ WorkerRunning(w)
       \/ WorkerStreamEnd(w)
       \/ WorkerStreamError(w)

\* The lookup and the reload of a running container succeed in the end.
WorkerAttach(w) == w \in WorkerIds /\ WorkerRunning(w)

Fairness ==
    /\ WF_vars(MainStep)
    /\ SF_vars(MainRescan)
    /\ \A w \in 1..MaxWorkers : WF_vars(WorkerStep(w)) /\ SF_vars(WorkerAttach(w))

FairSpec == InitFair /\ [][Next]_vars /\ Fairness

\* ------------------------------------------------------------- assign_style alone
\* One call of assign_style on arguments drawn at the start.
InitAssign ==
    /\ pattern = API
    /\ exact = FALSE
    /\ include_tty = FALSE
    /\ cstate = [n \in Names |-> "absent"]
    /\ stop_event = FALSE
    /\ workers = << >>
    /\ active_workers = [n \in {} |-> 0]
    /\ console = << >>
    /\ mpc = "initial"
    /\ exc = FALSE
    /\ matches = << >>
    /\ mi = 0
    /\ used_styles = {}
    /\ pass_base = 0
    /\ joinq = << >>
    /\ tty_check_failed = FALSE
    /\ exhausted = FALSE
    /\ filtered = FALSE
    /\ m_all = << >>
    /\ m_fails = {}
    /\ m_ret = NoResult
    /\ a_name \in AssignNames
    /\ a_used \in SUBSET Palette
    /\ a_ret = NoStyle

AssignCall ==
    /\ a_ret = NoStyle
    /\ a_ret' = assign_style(a_name, a_used)
    /\ UNCHANGED << cfgVars, cstate, stop_event, workers, active_workers,
                    console, mainVars, a_name, a_used, matchVars >>

NextAssign == AssignCall

SpecAssign == InitAssign /\ [][NextAssign]_vars

\* ------------------------------------------------------------- the matcher alone
\* One call of find_matching_containers on a listing, a command line and a set
\* of containers whose reload raises, all drawn at the start.
MatchNames == {API, APP, ASH}

MatchPatterns == {<< "a" >>, << "p" >>, API, APP, ASH}

\* The listings: the sequences of distinct containers.
Listings ==
    {s \in UNION {[1..k -> MatchNames] : k \in 0..Cardinality(MatchNames)} :
        \A i, j \in 1..Len(s) : i # j => s[i] # s[j]}

InitMatch ==
    /\ pattern \in MatchPatterns
    /\ exact \in BOOLEAN
    /\ include_tty \in BOOLEAN
    /\ cstate = [n \in Names |-> "absent"]
    /\ stop_event = FALSE
    /\ workers = << >>
    /\ active_workers = [n \in {} |-> 0]
    /\ console = << >>
    /\ mpc = "initial"
    /\ exc = FALSE
    /\ matches = << >>
    /\ mi = 0
    /\ used_styles = {}
    /\ pass_base = 0
    /\ joinq = << >>
    /\ tty_check_failed = FALSE
    /\ exhausted = FALSE
    /\ filtered = FALSE
    /\ a_name = API
    /\ a_used = {}
    /\ a_ret = NoStyle
    /\ m_all \in Listings
    /\ m_fails \in SUBSET {m_all[i] : i \in 1..Len(m_all)}
    /\ m_ret = NoResult

MatchCall ==
    /\ m_ret = NoResult
    /\ m_ret' = find_matching_containers(m_all, pattern, exact, include_tty,
                                         m_fails)
    /\ UNCHANGED << cfgVars, cstate, stop_event, workers, active_workers,
                    console, mainVars, assignVars, m_all, m_fails >>

NextMatch == MatchCall

SpecMatch == InitMatch /\ [][NextMatch]_vars

\* ------------------------------------------------------------- properties
Banners(w) == SelectSeq(Out(w), LAMBDA e : e.text \in {"+", "-"})

NameOf(w) == workers[w].container_name

AliveWorkers == {w \in WorkerIds : is_alive(w)}

\* C1: every worker's banners read +, -, +, - ... from the first one on, and
\* the attached flag is set exactly when the last banner is a "+": one banner
\* per transition of the flag, none per poll.
C1_BannersAlternate ==
    \A w \in WorkerIds :
        /\ \A i \in 1..Len(Banners(w)) :
              Banners(w)[i].text = (IF i % 2 = 1 THEN "+" ELSE "-")
        /\ workers[w].attached_running = (Len(Banners(w)) % 2 = 1)

\* A worker that went STOPPED -> ATTACHED -> STOPPED and polls on.
C1_Witness ==
    \E w \in WorkerIds :
        /\ Len(Banners(w)) = 2
        /\ workers[w].pc = "poll"
        /\ cstate[NameOf(w)] = "exited"

\* C2: no name has two alive workers.
C2_OneAlivePerName ==
    \A n \in Names : Cardinality({w \in AliveWorkers : NameOf(w) = n}) <= 1

\* A name whose dead worker was replaced by a new, alive one.
C2_Witness ==
    \E v, w \in WorkerIds :
        /\ NameOf(v) = NameOf(w)
        /\ ~is_alive(v)
        /\ is_alive(w)
        /\ active_workers[NameOf(w)] = w

NoSharedStyle ==
    \A v, w \in AliveWorkers : v # w => workers[v].style # workers[w].style

C4_Reference(name, used) ==
    LET n == Len(STYLES)
        h == Sha256Int(name) % n
        at(k) == STYLES[((h + k) % n) + 1]
    IN  IF \A k \in 0..(n - 1) : at(k) \in used
        THEN STYLES[h + 1]
        ELSE at(CHOOSE k \in 0..(n - 1) :
                    at(k) \notin used /\ \A j \in 0..(k - 1) : at(j) \in used)

\* C4: assign_style returns the reference style for every name and every set
\* of used styles within the palette, and a style not in use when one is left.
C4_AssignIsFirstFree ==
    a_ret # NoStyle =>
        /\ a_ret = C4_Reference(a_name, a_used)
        /\ a_ret \in Palette
        /\ Cardinality(a_used) < Cardinality(Palette) => a_ret \notin a_used

\* A call that had to scan past a used style, and one on a full palette.
C4_Witness ==
    /\ a_ret # NoStyle
    /\ a_used # {}
    /\ STYLES[hashed_index(a_name) + 1] \in a_used
    /\ a_ret \notin a_used

C4_WitnessFull ==
    a_ret # NoStyle /\ a_used = Palette /\ a_ret = STYLES[hashed_index(a_name) + 1]

\* C5: a worker prints nothing before a poll that finds its container running
\* (its first entry is the "+" of that poll), a poll that does not find it
\* running returns the worker to the loop top and, if it has printed nothing,
\* prints nothing, and a worker ends only with the stop event set.
C5_SilentWhileNotFound ==
    [][\A w \in WorkerIds :
          /\ (Out(w) = << >> /\ Out(w)' # << >>) =>
                /\ cstate[NameOf(w)] = "running"
                /\ workers[w].pc = "poll"
                /\ Out(w)'[1].text = "+"
          /\ (workers[w].pc = "poll" /\ workers'[w].pc # "poll"
                /\ cstate[NameOf(w)] # "running") =>
                /\ workers'[w].pc = "top"
                /\ Out(w) = << >> => Out(w)' = << >>
          /\ (is_alive(w) /\ workers'[w].pc = "done") => stop_event
      ]_vars

\* A silent worker polling for a container that is gone, no stop requested.
C5_Witness ==
    \E w \in WorkerIds :
        /\ workers[w].pc = "poll"
        /\ cstate[NameOf(w)] = "absent"
        /\ Out(w) = << >>
        /\ ~stop_event
        /\ mpc = "sleep"

\* C6: an iteration of a reconcile pass leaves its name backed by an alive
\* worker, and an iteration that finds its name backed by an alive worker
\* changes neither the map nor the workers nor the console: a second pass over
\* the same matches, no worker having ended, changes nothing.
C6_ReconcileIdempotent ==
    [][(mpc \in {"initial_for", "scan_for"} /\ mi' # mi) =>
          LET n == matches[mi]
          IN  /\ n \in DOMAIN active_workers'
              /\ workers'[active_workers'[n]].pc # "done"
              /\ (n \in DOMAIN active_workers /\ is_alive(active_workers[n])) =>
                    /\ active_workers' = active_workers
                    /\ workers' = workers
                    /\ console' = console
      ]_vars

\* The second pass, past its first name, with the two workers of the first.
C6_Witness ==
    /\ mpc = "scan_for"
    /\ mi = 2
    /\ Len(workers) = 2
    /\ \A n \in Names : n \in DOMAIN active_workers /\ is_alive(active_workers[n])

\* C7: no step removes or replaces the record of an alive worker, whether or
\* not its container still matches, and an alive worker ends only with the stop
\* event set.
C7_AdditiveOnly ==
    [][\A n \in DOMAIN active_workers :
          is_alive(active_workers[n]) =>
              /\ n \in DOMAIN active_workers'
              /\ active_workers'[n] = active_workers[n]
              /\ ~stop_event => workers'[active_workers[n]].pc # "done"
      ]_vars

\* A pass over matches that no longer hold the container of an alive worker.
C7_Witness ==
    /\ mpc = "scan_for"
    /\ ~stop_event
    /\ \E n \in DOMAIN active_workers :
          /\ is_alive(active_workers[n])
          /\ cstate[n] = "absent"
          /\ \A i \in 1..Len(matches) : matches[i] # n

\* C8: once the stop event is set, a worker that is in its stream loop prints
\* nothing more there and leaves it only for the loop top, and a worker at the
\* loop top only ends, printing nothing: no "-" banner for the running source.
C8_NoStopBannerOnCancel ==
    [][\A w \in WorkerIds :
          (stop_event /\ workers[w].pc \in {"stream", "top"}) =>
              /\ Out(w)' = Out(w)
              /\ workers[w].pc = "stream" => workers'[w].pc \in {"stream", "top"}
              /\ workers[w].pc = "top" => workers'[w].pc \in {"top", "done"}
      ]_vars

\* A worker that ended attached, its source still running, its last banner "+".
C8_Witness ==
    \E w \in WorkerIds :
        /\ workers[w].pc = "done"
        /\ workers[w].attached_running
        /\ cstate[NameOf(w)] = "running"
        /\ Banners(w) = << [src |-> w, text |-> "+"] >>
        /\ Len(Out(w)) = 2

Advisories == Len(SelectSeq(console, LAMBDA e : e.text = "advisory"))

\* The run is exact mode on a container flagged interactive.
ExactOnInteractive ==
    exact /\ pattern \in Names /\ (Tty(pattern) \/ OpenStdin(pattern))

\* C9 as stated: with inclusion off no worker and never two advisories, with
\* inclusion on no advisory and never two workers.
C9_Original ==
    ExactOnInteractive =>
        IF ~include_tty
        THEN Len(workers) = 0 /\ Advisories <= 1
        ELSE Advisories = 0 /\ Len(workers) <= 1

\* C9 as amended: with inclusion off no worker is started as long as no
\* interactive check has failed, the advisory is printed at most once, and it
\* is printed when the startup check lists the target and its interactive check
\* succeeds; with inclusion on no advisory is printed, at most one worker is
\* ever started, and a pass that lists the target leaves exactly one.
C9_InteractiveTarget ==
    /\ [](ExactOnInteractive =>
            IF ~include_tty
            THEN (~tty_check_failed => Len(workers) = 0) /\ Advisories <= 1
            ELSE Advisories = 0 /\ Len(workers) <= 1)
    /\ [][ExactOnInteractive =>
            /\ (~include_tty /\ mpc = "warn" /\ mpc' = "loop"
                  /\ cstate[pattern] # "absent" /\ ~tty_check_failed') =>
                      Advisories' = 1
            /\ (include_tty /\ mpc \in {"initial_for", "scan_for"} /\ mi' # mi) =>
                      Len(workers') = 1
       ]_vars

\* Inclusion off: the advisory is out, the main loop runs, no worker exists.
C9_Witness ==
    /\ ExactOnInteractive
    /\ ~include_tty
    /\ Advisories = 1
    /\ Len(workers) = 0
    /\ mpc = "sleep"
    /\ cstate[pattern] = "running"

\* Inclusion on: the one worker streams.
C9_WitnessIncluded ==
    /\ ExactOnInteractive
    /\ include_tty
    /\ Len(workers) = 1
    /\ workers[1].pc = "stream"
    /\ Advisories = 0

\* C10: in a run where "api" ends up running for good, the stop event is never
\* set, the process stays up and no interactive check fails, a worker for
\* "api" prints a "+" banner in the end; and whatever a worker prints starts
\* with its "+" banner, so the banner is before every log line.
C10_LateSourceIsTailed ==
    /\ [](\A w \in WorkerIds : Out(w) # << >> => Out(w)[1].text = "+")
    /\ (<>[](cstate[API] = "running") /\ []~stop_event /\ [](mpc # "exit")
          /\ []~tty_check_failed)
        => <>(\E w \in WorkerIds :
                 /\ NameOf(w) = API
                 /\ Out(w) # << >>
                 /\ Out(w)[1].text = "+")

\* "api", absent at the initial spawn, is tailed: banner, then a line.
C10_Witness ==
    \E w \in WorkerIds :
        /\ NameOf(w) = API
        /\ w = 1
        /\ Len(Out(w)) = 2
        /\ Out(w)[1].text = "+"
        /\ Out(w)[2].text = "line"
        /\ cstate[API] = "running"
        /\ ~stop_event
        /\ ~tty_check_failed

\* The positions of the main thread inside the try block of logs().
LoopPcs == {"loop", "scan", "scan_for", "sleep"}

\* C11: once the main loop runs no runtime error is fatal: the main thread
\* leaves the loop only at the loop test with the stop event set, the stop
\* event is set by the signal handler alone (the main thread staying where it
\* is), and a worker ends only with the stop event set.
C11_NoFatalRuntimeError ==
    [][/\ (mpc \in LoopPcs /\ mpc' \notin LoopPcs) => (mpc = "loop" /\ stop_event)
       /\ (~stop_event /\ stop_event') => mpc' = mpc
       /\ \A w \in WorkerIds :
             (is_alive(w) /\ workers'[w].pc = "done") => stop_event
      ]_vars

\* The workers the running reconcile pass has started so far.
StartedInPass == (pass_base + 1)..Len(workers)

\* A step of a reconcile pass that constructs and starts a worker.
StartsWorker ==
    mpc \in {"initial_for", "scan_for"} /\ Len(workers') = Len(workers) + 1

Prints(w, text) == Out(w)' = Append(Out(w), [src |-> w, text |-> text])

\* Worker w, attached, completes a poll in this step.
AttachedPoll(w) ==
    /\ workers[w].pc = "poll"
    /\ workers[w].attached_running
    /\ workers'[w].pc # "poll"

\* C13 as stated, on a container that is gone (every lookup then fails, with
\* NotFound or with another error): the poll of an attached worker prints the
\* "-" banner, clears the attached flag and returns to the loop top.
C13_Original ==
    [][\A w \in WorkerIds :
          (AttachedPoll(w) /\ cstate[NameOf(w)] = "absent") =>
              /\ Prints(w, "-")
              /\ ~workers'[w].attached_running
              /\ workers'[w].pc = "top"
      ]_vars

\* C13 as amended: the poll of an attached worker either prints the "-" banner,
\* clears the flag and returns to the loop top, and then the container is
\* absent or not running (NotFound, or a status other than running); or prints
\* nothing and keeps the flag, returning to the loop top or going on to the
\* stream: a lookup that fails with another error is retried with no banner,
\* and no "-" banner is printed for a container that is running.
C13_BannerOnlyOnNotFound ==
    [][\A w \in WorkerIds :
          AttachedPoll(w) =>
              \/ /\ Prints(w, "-")
                 /\ ~workers'[w].attached_running
                 /\ workers'[w].pc = "top"
                 /\ cstate[NameOf(w)] # "running"
              \/ /\ Out(w)' = Out(w)
                 /\ workers'[w].attached_running
                 /\ workers'[w].pc \in {"top", "stream"}
                 /\ workers'[w].pc = "stream" => cstate[NameOf(w)] = "running"
      ]_vars

\* An attached worker polls a container that is gone; nothing stops the run.
C13_Witness ==
    \E w \in WorkerIds :
        /\ workers[w].pc = "poll"
        /\ workers[w].attached_running
        /\ cstate[NameOf(w)] = "absent"
        /\ Banners(w) = << [src |-> w, text |-> "+"] >>
        /\ Len(console) < MaxOut
        /\ ~stop_event

\* C14: a worker in its stream loop prints no banner, and leaves the loop (end
\* of the stream, stream error, stop event) for the loop top with its attached
\* flag as it was; a "-" banner is printed only by a poll that finds the
\* container absent or not running; and a poll of an attached worker that
\* finds the container running goes back to the stream printing nothing.
C14_NoBannerAtStreamEnd ==
    [][\A w \in WorkerIds :
          /\ workers[w].pc = "stream" =>
                /\ Banners(w)' = Banners(w)
                /\ workers'[w].pc \in {"stream", "top"}
                /\ workers'[w].attached_running = workers[w].attached_running
          /\ Prints(w, "-") =>
                /\ workers[w].pc = "poll"
                /\ cstate[NameOf(w)] \in {"absent", "exited"}
          /\ (AttachedPoll(w) /\ workers'[w].pc = "stream") =>
                /\ cstate[NameOf(w)] = "running"
                /\ Out(w)' = Out(w)
      ]_vars

\* A stream has ended on a running container: the worker, still attached and
\* with its one "+" banner, is at the re-check.
C14_Witness ==
    \E w \in WorkerIds :
        /\ workers[w].pc = "poll"
        /\ workers[w].attached_running
        /\ cstate[NameOf(w)] = "running"
        /\ ~stop_event
        /\ Len(Out(w)) = 2
        /\ Out(w)[1].text = "+"
        /\ Out(w)[2].text = "line"

\* The main thread begins a reconcile pass from the main loop in this step.
LoopInvokesReconcile == mpc = "loop" /\ mpc' = "scan"

\* C15: in exact mode the main loop begins a reconcile pass only when no
\* worker is alive (none exists), once a worker exists the main thread is in no
\* pass and begins none, and at most one worker is ever constructed.
C15_ExactSingleWorker ==
    /\ [](exact => Len(workers) <= 1)
    /\ []((exact /\ Len(workers) >= 1) =>
            /\ mpc \notin {"initial", "scan", "scan_for"}
            /\ NameOf(1) = pattern)
    /\ [][(exact /\ LoopInvokesReconcile) =>
            /\ AliveWorkers = {}
            /\ DOMAIN active_workers = {}
         ]_vars

\* Exact mode: the target's one worker is alive and attached, its container
\* has stopped since, and the main loop goes round without a pass.
C15_Witness ==
    /\ exact
    /\ Len(workers) = 1
    /\ is_alive(1)
    /\ workers[1].attached_running
    /\ cstate[pattern] = "exited"
    /\ mpc = "sleep"
    /\ ~stop_event

\* A worker thread not blocked in a stream read is scheduled: the loop test
\* and one poll (lookup, status refresh, banner), whatever its outcome.
WorkerPollStep(w) ==
    /\ w \in WorkerIds
    /\ \/ WorkerLoopTop(w)
       \/ WorkerNotFound(w)
       \/ WorkerLookupError(w)
       \/ WorkerReloadError(w)
       \/ WorkerNotRunning(w)
       \/ WorkerRunning(w)

\* Worker threads run; nothing is assumed of the main thread, of the daemon or
\* of a stream read.
FairWorkers ==
    InitFair /\ [][Next]_vars /\ \A w \in 1..MaxWorkers : WF_vars(WorkerPollStep(w))

\* C16: with the stop event set, a worker at the loop top only ends, a worker
\* in its stream loop only leaves it for the loop top (next chunk, end of the
\* stream) and prints nothing, and a worker ends from the loop top alone with
\* nothing printed by that step; and once the stop event is set, as long as
\* the process is up, a time comes when every worker has ended or is held in
\* a stream read: a worker at the loop test, in a poll or in its sleep ends,
\* and so does one whose stream read returns.
C16_WorkersObserveStop ==
    /\ [][\A w \in WorkerIds :
             stop_event =>
                 /\ workers[w].pc = "top" => workers'[w].pc \in {"top", "done"}
                 /\ workers[w].pc = "stream" =>
                       /\ workers'[w].pc \in {"stream", "top"}
                       /\ Out(w)' = Out(w)
                 /\ (is_alive(w) /\ workers'[w].pc = "done") =>
                       /\ workers[w].pc = "top"
                       /\ console' = console
         ]_vars
    /\ [](stop_event =>
            <>(\/ mpc = "exit"
               \/ \A w \in WorkerIds : workers[w].pc \in {"done", "stream"}))

\* A worker that was streaming when the stop event was set has ended, attached
\* and with no closing banner, before the main thread has left the main loop.
C16_Witness ==
    \E w \in WorkerIds :
        /\ stop_event
        /\ workers[w].pc = "done"
        /\ workers[w].attached_running
        /\ Len(Banners(w)) = 1
        /\ mpc \in LoopPcs

\* The main thread runs; nothing is assumed of the workers or of the daemon.
FairMain == InitFair /\ [][Next]_vars /\ WF_vars(MainStep)

\* The pass is about to construct one worker more than a run here may hold.
WorkerCapReached ==
    /\ mpc \in {"initial_for", "scan_for"}
    /\ Len(workers) = MaxWorkers
    /\ NeedsWorker(matches[mi])

\* list(active_workers.values()) as a set.
RecordedWorkers == {active_workers[n] : n \in DOMAIN active_workers}

\* C17: the finally block sets the stop event and takes every worker of the
\* map, each once, for a join; every join returns and takes the next; the main
\* thread leaves the try block for the end of logs() only with no join left;
\* and once the stop event is set the main thread reaches the end of logs(),
\* whatever the workers do.
C17_ShutdownTerminates ==
    /\ [][/\ (mpc = "finally" /\ mpc' # "finally") =>
                /\ stop_event'
                /\ {joinq'[i] : i \in 1..Len(joinq')} = RecordedWorkers
                /\ Len(joinq') = Cardinality(RecordedWorkers)
          /\ (mpc = "join" /\ joinq' # joinq) => joinq' = Tail(joinq)
          /\ (mpc \in LoopPcs \cup {"finally", "join"} /\ mpc' = "exit") =>
                /\ mpc \in {"finally", "join"}
                /\ joinq' = << >>
         ]_vars
    /\ ([]~WorkerCapReached) => (stop_event ~> mpc = "exit")

\* logs() has returned after a stop signal and the joins, while a worker of
\* the map is still in its stream read.
C17_Witness ==
    /\ mpc = "exit"
    /\ ~exc
    /\ stop_event
    /\ joinq = << >>
    /\ \E w \in RecordedWorkers : workers[w].pc = "stream"

\* c is in the listing and passes the name test of the match mode.
Candidate(c) ==
    /\ \E i \in 1..Len(m_all) : m_all[i] = c
    /\ IF exact THEN c = pattern ELSE Contains(Lower(pattern), Lower(c))

\* c is in the match result.
InResult(c) == \E i \in 1..Len(m_ret) : m_ret[i] = c

\* C18: with inclusion off the result holds candidates only; a candidate whose
\* reload raises is in it; a candidate whose reload returns is in it exactly
\* when neither its Tty flag nor its OpenStdin flag is set.
C18_FailedCheckIsIncluded ==
    (m_ret # NoResult /\ ~include_tty) =>
        \A c \in MatchNames :
            /\ InResult(c) => Candidate(c)
            /\ (Candidate(c) /\ c \in m_fails) => InResult(c)
            /\ (Candidate(c) /\ c \notin m_fails) =>
                  (InResult(c) <=> ~(Tty(c) \/ OpenStdin(c)))

\* Three candidates: the Tty one's reload raised and it is in the result, the
\* OpenStdin one's reload returned and it is dropped, the plain one is kept.
C18_Witness ==
    /\ m_ret # NoResult
    /\ ~include_tty
    /\ m_fails = {ASH}
    /\ Candidate(API) /\ Candidate(APP) /\ Candidate(ASH)
    /\ InResult(ASH)
    /\ ~InResult(APP)
    /\ InResult(API)

\* C19 as stated, at the end of a run of exact mode with inclusion off that no
\* exception ended and in which no interactive check failed: the advisory was
\* printed if a pass dropped the listed target, at startup or later, and was
\* not printed if none did.
C19_Original ==
    (exact /\ ~include_tty /\ mpc = "exit" /\ ~exc /\ ~tty_check_failed) =>
        (filtered <=> Advisories >= 1)

\* C19 as amended: the advisory is printed by the startup check alone, in
\* exact mode with inclusion off, when that check lists the target and finds it
\* interactive, and then it is printed unless the check's reload raised; a
\* pass of the main loop prints nothing, also when it drops the target.
C19_AdvisoryOnlyAtStartup ==
    [][/\ Advisories' # Advisories =>
             /\ mpc = "warn"
             /\ exact /\ ~include_tty
             /\ Listed(pattern)
             /\ Tty(pattern) \/ OpenStdin(pattern)
             /\ Advisories' = Advisories + 1
       /\ (/\ mpc = "warn" /\ mpc' = "loop"
           /\ exact /\ ~include_tty
           /\ Listed(pattern)
           /\ Tty(pattern) \/ OpenStdin(pattern)) =>
             Advisories' = Advisories + 1 \/ tty_check_failed'
       /\ mpc \in LoopPcs => console' \in {console} \cup
             {Append(console, [src |-> w, text |-> t]) :
                 w \in WorkerIds, t \in {"+", "-", "line"}}
      ]_vars

\* The target came up after the startup check, a pass of the main loop has
\* dropped it, and no advisory was printed.
C19_Witness ==
    /\ exact /\ ~include_tty
    /\ filtered
    /\ ~tty_check_failed
    /\ Advisories = 0
    /\ mpc = "sleep"
    /\ cstate[pattern] = "running"

\* C20: a worker prints a log line only from its stream loop with its attached
\* flag set; and in every worker's output every log line has a "+" banner
\* before it with no "-" banner between the two.
C20_LinesOnlyWhileAttached ==
    /\ [][\A w \in WorkerIds :
             Prints(w, "line") =>
                 /\ workers[w].attached_running
                 /\ workers[w].pc = "stream"
         ]_vars
    /\ [](\A w \in WorkerIds :
             \A i \in 1..Len(Out(w)) :
                 Out(w)[i].text = "line" =>
                     \E j \in 1..(i - 1) :
                         /\ Out(w)[j].text = "+"
                         /\ \A k \in (j + 1)..(i - 1) : Out(w)[k].text # "-")

\* A worker in its stream loop whose last output is a log line.
C20_Witness ==
    \E w \in WorkerIds :
        /\ workers[w].pc = "stream"
        /\ Out(w) # << >>
        /\ Out(w)[Len(Out(w))].text = "line"
        /\ Len(console) = MaxOut

====
